---- MODULE Spec2Model ----
(***************************************************************************)
(* A model of the SegWit P2WSH data MVP (src/src/App.tsx): the envelope    *)
(* script codec, the compact-size / witness encoder, the derived state of  *)
(* the create tab, and the fund / auto-detect / spend handlers.            *)
(*                                                                         *)
(* Representation.  A byte string (Buffer, Uint8Array) is a sequence of    *)
(* numbers in 0..255.  A text (a JavaScript string) is a sequence of code  *)
(* points, so "hi" is <<104, 105>>.  A number that may exceed 2^31 - 1 is  *)
(* a pair <<hi, lo>> standing for hi * 65536 + lo with lo in 0..65535.     *)
(***************************************************************************)
EXTENDS Integers, Sequences, FiniteSets, TLC

(***************************************************************************)
(* Bounds of the model.                                                    *)
(***************************************************************************)
\* SmallPayloads holds every byte string over SampleBytes up to this length.
MaxSmallLen == 2
\* Witness stacks of the codec specification hold up to this many items.
MaxStack == 2
\* At most this many funding transactions are sent or awaited.
MaxFunds == 1
\* At most this many auto-detect fetches are in flight.
MaxFetches == 1
\* A behaviour of the application takes at most this many steps.
MaxSteps == 8
\* The number of elements between OP_IF and the closing elements of the
\* scripts given to parseEnvelopeScript.
MaxMiddle == 2
MaxHexLen == 3

(***************************************************************************)
(* Texts and bytes.                                                        *)
(***************************************************************************)
Rep(x, n) == [i \in 1..n |-> x]

IsHexDigit(c) == c \in 48..57 \/ c \in 97..102 \/ c \in 65..70
HexVal(c) == IF c \in 48..57 THEN c - 48 ELSE IF c \in 97..102 THEN c - 87 ELSE c - 55
IsSpace(c) == c \in {9, 10, 13, 32}

\* String.prototype.trim
RECURSIVE TrimLeft(_)
TrimLeft(s) == IF s # <<>> /\ IsSpace(Head(s)) THEN TrimLeft(Tail(s)) ELSE s
RECURSIVE TrimRight(_)
TrimRight(s) ==
    IF s # <<>> /\ IsSpace(s[Len(s)]) THEN TrimRight(SubSeq(s, 1, Len(s) - 1)) ELSE s
Trim(s) == TrimRight(TrimLeft(s))

\* .replace(/^0x/, "")
Strip0x(s) ==
    IF Len(s) >= 2 /\ s[1] = 48 /\ s[2] = 120 THEN SubSeq(s, 3, Len(s)) ELSE s

\* parseInt(two characters, 16): <<>> stands for NaN, <<v>> for the number v.
\* Leading white space and a sign are skipped, a "0x" prefix is dropped, and
\* the digits up to the first character that is no hex digit are read.
ParseInt16(c1, c2) ==
    IF IsHexDigit(c1) THEN
        IF c1 = 48 /\ c2 \in {120, 88} THEN <<>>
        ELSE IF IsHexDigit(c2) THEN <<16 * HexVal(c1) + HexVal(c2)>>
        ELSE <<HexVal(c1)>>
    ELSE IF IsSpace(c1) \/ c1 = 43 THEN
        IF IsHexDigit(c2) THEN <<HexVal(c2)>> ELSE <<>>
    ELSE IF c1 = 45 THEN
        IF IsHexDigit(c2) THEN <<0 - HexVal(c2)>> ELSE <<>>
    ELSE <<>>

\* A store into a Uint8Array: NaN is stored as 0, a number modulo 256.
ToUint8(v) == IF v = <<>> THEN 0 ELSE v[1] % 256

\* The outcome of a call that may throw: the value returned, or the message
\* of the Error thrown.
Return(v) == [ok |-> v]
Throw(msg) == [error |-> msg]
IsThrow(r) == "error" \in DOMAIN r

\* hexToBytes: the bytes, or the error thrown for an odd length.
hexToBytes(hex) ==
    LET clean == Strip0x(Trim(hex))
    IN  IF Len(clean) % 2 # 0 THEN Throw("Hex length must be even")
        ELSE Return([i \in 1..(Len(clean) \div 2) |->
                        ToUint8(ParseInt16(clean[2 * i - 1], clean[2 * i]))])

\* The UTF-8 encoding of one code point below 0x10000.
Utf8Char(c) ==
    IF c < 128 THEN <<c>>
    ELSE IF c < 2048 THEN <<192 + (c \div 64), 128 + (c % 64)>>
    ELSE <<224 + (c \div 4096), 128 + ((c \div 64) % 64), 128 + (c % 64)>>

\* utf8ToBytes: new TextEncoder().encode(txt).
RECURSIVE utf8ToBytes(_)
utf8ToBytes(txt) ==
    IF \A i \in DOMAIN txt : txt[i] < 128 THEN [i \in 1..Len(txt) |-> txt[i]]
    ELSE IF Len(txt) = 1 THEN Utf8Char(txt[1])
    ELSE LET h == Len(txt) \div 2
         IN  utf8ToBytes(SubSeq(txt, 1, h)) \o utf8ToBytes(SubSeq(txt, h + 1, Len(txt)))

HexChar(v) == IF v < 10 THEN 48 + v ELSE 87 + v

\* Buffer.prototype.toString("hex"): two lower-case digits for each byte.
ToHex(bytes) ==
    [i \in 1..(2 * Len(bytes)) |->
        IF i % 2 = 1 THEN HexChar(bytes[(i + 1) \div 2] \div 16)
        ELSE HexChar(bytes[i \div 2] % 16)]

\* Buffer.from(text, "hex"): the bytes of the leading pairs of hex digits; the
\* decoding stops at the first pair that is not two hex digits.
FromHex(h) ==
    LET n == Len(h) \div 2
        ok(i) == IsHexDigit(h[2 * i - 1]) /\ IsHexDigit(h[2 * i])
        k == IF \A i \in 1..n : ok(i) THEN n
             ELSE (CHOOSE i \in 1..n : ~ok(i) /\ \A j \in 1..(i - 1) : ok(j)) - 1
    IN  [i \in 1..k |-> 16 * HexVal(h[2 * i - 1]) + HexVal(h[2 * i])]

(***************************************************************************)
(* Wide numbers: <<hi, lo>> is hi * 65536 + lo.                            *)
(***************************************************************************)
Wide(n) == <<n \div 65536, n % 65536>>

\* A variant of encodeCompactSize whose one-byte form takes 253 as well
\* (n <= 0xfd for n < 0xfd).
encodeCompactSizeInclusive(n) ==
    LET hi == n[1]
        lo == n[2]
    IN  IF hi = 0 /\ lo <= 253 THEN [ok |-> <<lo>>]
        ELSE IF hi = 0 THEN [ok |-> <<253, lo % 256, lo \div 256>>]
        ELSE IF hi <= 65535
            THEN [ok |-> <<254, lo % 256, lo \div 256, hi % 256, hi \div 256>>]
        ELSE [error |-> "compactSize too large"]

\* encodeCompactSize, on a wide number.
encodeCompactSize(n) ==
    LET hi == n[1]
        lo == n[2]
    IN  IF hi = 0 /\ lo < 253 THEN Return(<<lo>>)                 \* n < 0xfd
        ELSE IF hi = 0 THEN Return(<<253, lo % 256, lo \div 256>>) \* n <= 0xffff
        ELSE IF hi <= 65535                                        \* n <= 0xffffffff
            THEN Return(<<254, lo % 256, lo \div 256, hi % 256, hi \div 256>>)
        ELSE Throw("compactSize too large")

\* encodeCompactSize of the length of a Buffer or of an array, which is below
\* 2^32: the call returns.
SizePrefix(n) == encodeCompactSize(Wide(n)).ok

\* Buffer.concat of the parts pushed for stack[a..b].
RECURSIVE WitnessParts(_, _, _)
WitnessParts(stack, a, b) ==
    IF a > b THEN <<>>
    ELSE IF a = b THEN SizePrefix(Len(stack[a])) \o stack[a]
    ELSE LET m == (a + b) \div 2
         IN  WitnessParts(stack, a, m) \o WitnessParts(stack, m + 1, b)

\* A variant of witnessStackToScriptWitness that leaves the item count out.
witnessStackWithoutCount(stack) == WitnessParts(stack, 1, Len(stack))

witnessStackToScriptWitness(stack) ==
    SizePrefix(Len(stack)) \o WitnessParts(stack, 1, Len(stack))

(***************************************************************************)
(* bitcoin.script: opcodes, compile and decompile.  A chunk is an opcode   *)
(* [op |-> n] or a data push [buf |-> bytes].                              *)
(***************************************************************************)
OP_FALSE == 0
OP_PUSHDATA1 == 76
OP_PUSHDATA2 == 77
OP_PUSHDATA4 == 78
OP_1NEGATE == 79
OP_RESERVED == 80
OP_TRUE == 81
OP_IF == 99
OP_ENDIF == 104

Op(n) == [op |-> n]
Buf(b) == [buf |-> b]
IsBuf(c) == DOMAIN c = {"buf"}
IsOp(c) == DOMAIN c = {"op"}

\* asMinimalOP: <<opcode>> when the push has a one-byte opcode form, else <<>>.
asMinimalOP(b) ==
    IF Len(b) = 0 THEN <<OP_FALSE>>
    ELSE IF Len(b) # 1 THEN <<>>
    ELSE IF b[1] >= 1 /\ b[1] <= 16 THEN <<OP_RESERVED + b[1]>>
    ELSE IF b[1] = 129 THEN <<OP_1NEGATE>>
    ELSE <<>>

\* pushdata.encode: the length prefix of a data push of n bytes.
PushdataEncode(n) ==
    IF n < OP_PUSHDATA1 THEN <<n>>
    ELSE IF n <= 255 THEN <<OP_PUSHDATA1, n>>
    ELSE IF n <= 65535 THEN <<OP_PUSHDATA2, n % 256, n \div 256>>
    ELSE <<OP_PUSHDATA4, n % 256, (n \div 256) % 256, (n \div 65536) % 256, n \div 16777216>>

CompileChunk(c) ==
    IF IsOp(c) THEN <<c.op>>
    ELSE IF asMinimalOP(c.buf) # <<>> THEN asMinimalOP(c.buf)
    ELSE PushdataEncode(Len(c.buf)) \o c.buf

\* bitcoin.script.compile
RECURSIVE Compile(_)
Compile(chunks) ==
    IF chunks = <<>> THEN <<>> ELSE CompileChunk(Head(chunks)) \o Compile(Tail(chunks))

Null == [null |-> TRUE]

\* pushdata.decode at 1-based position i: Null, or the pushed length and the
\* size of its prefix.  A 4-byte length of 2^30 or more, which is beyond the
\* length of any script, is read as 2^30.
PushdataDecode(b, i) ==
    LET opcode == b[i]
        n == Len(b) - i + 1
    IN  IF opcode < OP_PUSHDATA1 THEN [number |-> opcode, size |-> 1]
        ELSE IF opcode = OP_PUSHDATA1 THEN
            IF n < 2 THEN Null ELSE [number |-> b[i + 1], size |-> 2]
        ELSE IF opcode = OP_PUSHDATA2 THEN
            IF n < 3 THEN Null ELSE [number |-> b[i + 1] + 256 * b[i + 2], size |-> 3]
        ELSE
            IF n < 5 THEN Null
            ELSE [number |-> IF b[i + 4] >= 64 THEN 1073741824
                             ELSE b[i + 1] + 256 * b[i + 2] + 65536 * b[i + 3]
                                  + 16777216 * b[i + 4],
                  size |-> 5]

\* What decompile pushes for the data of a push: its one-byte opcode, if any.
DataChunk(data) ==
    IF asMinimalOP(data) # <<>> THEN Op(asMinimalOP(data)[1]) ELSE Buf(data)

\* bitcoin.script.decompile from position i with the chunks read so far:
\* [chunks |-> the chunks], or Null when a push runs past the end of the script.
RECURSIVE DecompileFrom(_, _, _)
DecompileFrom(b, i, acc) ==
    IF i > Len(b) THEN [chunks |-> acc]
    ELSE LET opcode == b[i]
         IN  IF opcode > OP_FALSE /\ opcode <= OP_PUSHDATA4 THEN
                 LET d == PushdataDecode(b, i)
                 IN  IF d = Null THEN Null
                     ELSE IF i + d.size + d.number > Len(b) + 1 THEN Null
                     ELSE DecompileFrom(b, i + d.size + d.number,
                              Append(acc, DataChunk(SubSeq(b, i + d.size,
                                                           i + d.size + d.number - 1))))
             ELSE DecompileFrom(b, i + 1, Append(acc, Op(opcode)))

Decompile(b) == DecompileFrom(b, 1, <<>>)

\* buildEnvelopeScript
buildEnvelopeScript(dataBytes) ==
    Compile(<<Op(OP_FALSE), Op(OP_IF), Buf(dataBytes), Op(OP_ENDIF), Op(OP_TRUE)>>)

\* MAX_CHUNK_SIZE
MaxChunkSize == 520

\* A variant of PayloadChunks whose loop runs while i <= dataBytes.length.
RECURSIVE PayloadChunksInclusive(_, _)
PayloadChunksInclusive(dataBytes, i) ==
    IF i > Len(dataBytes) THEN <<>>
    ELSE LET j == IF i + MaxChunkSize < Len(dataBytes)
                  THEN i + MaxChunkSize ELSE Len(dataBytes)
         IN  <<Buf(SubSeq(dataBytes, i + 1, j))>>
             \o PayloadChunksInclusive(dataBytes, i + MaxChunkSize)

\* The loop of buildInscriptionScript from offset i: the chunks
\* Buffer.from(dataBytes.slice(i, i + MAX_CHUNK_SIZE)) pushed onto parts.
RECURSIVE PayloadChunks(_, _)
PayloadChunks(dataBytes, i) ==
    IF i >= Len(dataBytes) THEN <<>>
    ELSE LET j == IF i + MaxChunkSize < Len(dataBytes)
                  THEN i + MaxChunkSize ELSE Len(dataBytes)
         IN  <<Buf(SubSeq(dataBytes, i + 1, j))>>
             \o PayloadChunks(dataBytes, i + MaxChunkSize)

\* The text "ord".
OrdTag == <<111, 114, 100>>

\* A variant of InscriptionParts that leaves the delimiter out.
InscriptionPartsWithoutDelimiter(dataBytes, contentType) ==
    <<Op(OP_FALSE), Op(OP_IF), Buf(utf8ToBytes(OrdTag)), Buf(<<1>>),
      Buf(utf8ToBytes(contentType))>>
    \o PayloadChunks(dataBytes, 0) \o <<Op(OP_ENDIF)>>

\* parts, as passed to compile; Buffer.from of a string is its UTF-8 bytes.
InscriptionParts(dataBytes, contentType) ==
    <<Op(OP_FALSE), Op(OP_IF), Buf(utf8ToBytes(OrdTag)), Buf(<<1>>),
      Buf(utf8ToBytes(contentType)), Buf(<<0>>)>>
    \o PayloadChunks(dataBytes, 0) \o <<Op(OP_ENDIF)>>

\* A variant of buildInscriptionScript that closes the envelope with OP_TRUE,
\* like buildEnvelopeScript.
buildInscriptionScriptWithTrue(dataBytes, contentType) ==
    Compile(InscriptionParts(dataBytes, contentType) \o <<Op(OP_TRUE)>>)

\* buildInscriptionScript
buildInscriptionScript(dataBytes, contentType) ==
    Compile(InscriptionParts(dataBytes, contentType))

\* The argument of parseEnvelopeScript is a value of the JSON the explorer
\* serves: a string, or a value that is no string, such as a number.
JsonString(text) == [string |-> text]
JsonNumber(n) == [number |-> n]

\* A variant of ParseEnvelopeTry that takes the envelope for one of exactly
\* five elements.
ParseEnvelopeTryFiveOnly(scriptHex) ==
    IF "number" \in DOMAIN scriptHex
    THEN Throw("The first argument must be of type string or an instance of Buffer")
    ELSE LET script == FromHex(scriptHex.string)
             d == Decompile(script)
             decompiled == d.chunks
             n == Len(decompiled)
         IN  IF d = Null THEN Null
             ELSE IF n # 5 THEN Null
             ELSE IF /\ decompiled[1] = Op(OP_FALSE)
                     /\ decompiled[2] = Op(OP_IF)
                     /\ decompiled[n - 1] = Op(OP_ENDIF)
                     /\ decompiled[n] = Op(OP_TRUE)
                     /\ IsBuf(decompiled[3])
                  THEN [data |-> decompiled[3].buf, isEnvelope |-> TRUE]
             ELSE Null

\* The try block of parseEnvelopeScript: Null, {data, isEnvelope}, or the
\* TypeError Buffer.from throws for an argument that is a number.  Nothing
\* in the block throws for a string.
ParseEnvelopeTry(scriptHex) ==
    IF "number" \in DOMAIN scriptHex
    THEN Throw("The first argument must be of type string or an instance of Buffer")
    ELSE LET script == FromHex(scriptHex.string)
             d == Decompile(script)
             decompiled == d.chunks
             n == Len(decompiled)
         IN  IF d = Null THEN Null
             ELSE IF n < 5 THEN Null
             ELSE IF /\ decompiled[1] = Op(OP_FALSE)
                     /\ decompiled[2] = Op(OP_IF)
                     /\ decompiled[n - 1] = Op(OP_ENDIF)
                     /\ decompiled[n] = Op(OP_TRUE)
                     /\ IsBuf(decompiled[3])
                  THEN [data |-> decompiled[3].buf, isEnvelope |-> TRUE]
             ELSE Null

\* A variant of parseEnvelopeScript without the catch.
parseEnvelopeScriptWithoutCatch(scriptHex) == ParseEnvelopeTry(scriptHex)

\* parseEnvelopeScript: the catch returns Null.
parseEnvelopeScript(scriptHex) ==
    LET r == ParseEnvelopeTry(scriptHex)
    IN  IF IsThrow(r) THEN Null ELSE r

(***************************************************************************)
(* fetchAndDecodeTransaction (App.tsx 384-453): the transaction the        *)
(* explorer answered with is a JSON object; a witness item is a JSON       *)
(* value, a string of hex digits when the explorer is well behaved.        *)
(***************************************************************************)
\* bytesToHex: two lower-case digits for each byte.
bytesToHex(u8) ==
    [i \in 1..(2 * Len(u8)) |->
        IF i % 2 = 1 THEN HexChar(u8[(i + 1) \div 2] \div 16)
        ELSE HexChar(u8[i \div 2] % 16)]

\* bytesToUtf8: new TextDecoder().decode(bytes) never throws.  Bytes below
\* 0x80 decode to the characters of the same code; the decoding of other
\* bytes is a term over the bytes.
bytesToUtf8(bytes) ==
    IF \A i \in DOMAIN bytes : bytes[i] < 128 THEN [text |-> bytes]
    ELSE [decoded |-> bytes]

\* JavaScript truthiness of a JSON value: "" and 0 are falsy.
Truthy(v) ==
    IF "string" \in DOMAIN v THEN v.string # <<>> ELSE v.number # 0

\* input.witness || []
WitnessOf(input) == IF "witness" \in DOMAIN input THEN input.witness ELSE <<>>

\* The result for an input found to carry the data of parsed.
DataResult(base, parsed) ==
    [index |-> base.index, witness |-> base.witness, hasData |-> TRUE,
     extractedData |-> "Envelope pattern detected",
     dataHex |-> bytesToHex(parsed.data),
     dataUtf8 |-> bytesToUtf8(parsed.data)]

\* A variant of ProcessInput that hands every witness item to the parser and
\* takes the first one that parses.
ProcessInputAnyItem(input, index) ==
    LET base == [index |-> index, witness |-> WitnessOf(input), hasData |-> FALSE]
        w == WitnessOf(input)
        hits == {k \in DOMAIN w : Truthy(w[k]) /\ parseEnvelopeScript(w[k]) # Null}
    IN  IF hits = {} THEN base
        ELSE DataResult(base, parseEnvelopeScript(
                 w[CHOOSE k \in hits : \A j \in hits : k <= j]))

\* The callback of txData.vin.map: the last witness item goes to the parser.
ProcessInput(input, index) ==
    LET base == [index |-> index, witness |-> WitnessOf(input), hasData |-> FALSE]
    IN  IF "witness" \in DOMAIN input /\ Len(input.witness) > 0
        THEN LET lastWitness == input.witness[Len(input.witness)]
             IN  IF Truthy(lastWitness)
                 THEN LET parsed == parseEnvelopeScript(lastWitness)
                      IN  IF parsed # Null /\ parsed.isEnvelope
                          THEN DataResult(base, parsed)
                          ELSE base
                 ELSE base
        ELSE base

\* output.scriptpubkey_address || "Unknown"
ProcessOutput(output, index) ==
    [index |-> index, value |-> output.value,
     address |-> IF "scriptpubkey_address" \in DOMAIN output
                 THEN output.scriptpubkey_address ELSE "Unknown"]

\* The object handed to setDecodedData for the transaction txData fetched for
\* decodeTxid.
DecodeTransaction(decodeTxid, txData) ==
    [txid |-> decodeTxid,
     inputs |-> [i \in DOMAIN txData.vin |-> ProcessInput(txData.vin[i], i - 1)],
     outputs |-> [i \in DOMAIN txData.vout |-> ProcessOutput(txData.vout[i], i - 1)]]

(***************************************************************************)
(* bitcoin.payments.p2wsh.  SHA-256 is collision resistant: the digest of  *)
(* a byte string is a term over the string (its length and the runs of     *)
(* equal bytes in it, which determine it), so that two strings have the    *)
(* same digest only if they are the same string.                           *)
(***************************************************************************)
Runs(b) == {<<i, b[i]>> : i \in {j \in 1..Len(b) : j = 1 \/ b[j] # b[j - 1]}}
Sha256(b) == [sha256 |-> [len |-> Len(b), runs |-> Runs(b)]]

\* The field prime of secp256k1, as 32 bytes.
EC_P == Rep(255, 27) \o <<254, 255, 255, 252, 47>>
BytesLess(a, b) ==
    \E i \in 1..Len(a) : a[i] < b[i] /\ \A j \in 1..(i - 1) : a[j] = b[j]

\* chunkHasUncompressedPubkey: a push of 65 bytes, 0x04 and two coordinates
\* that are not zero and below the field prime.
chunkHasUncompressedPubkey(c) ==
    /\ IsBuf(c)
    /\ Len(c.buf) = 65
    /\ c.buf[1] = 4
    /\ LET x == SubSeq(c.buf, 2, 33)
           y == SubSeq(c.buf, 34, 65)
       IN  /\ x # Rep(0, 32) /\ BytesLess(x, EC_P)
           /\ y # Rep(0, 32) /\ BytesLess(y, EC_P)

\* The testnet bech32 address of a version 0 witness program.
Bech32Address(program) == <<"tb", 0, program>>

\* bitcoin.payments.p2wsh({redeem: {output: wscript}, network: TESTNET}), with
\* the validation it runs: the address and the output script, or the
\* TypeError thrown.
p2wsh(wscript) ==
    LET d == Decompile(wscript)
    IN  IF d = Null \/ d.chunks = <<>> THEN Throw("Redeem.output is invalid")
        ELSE IF \E i \in DOMAIN d.chunks : chunkHasUncompressedPubkey(d.chunks[i])
            THEN Throw("redeem.input or redeem.output contains uncompressed pubkey")
        ELSE Return([address |-> Bech32Address(Sha256(wscript)),
                     output |-> <<OP_FALSE, 32, Sha256(wscript)>>])

\* The hex of an output script OP_0 <32-byte digest>: the hex of the two
\* leading bytes and the hex of the digest.
OutputHex(output) == ToHex(SubSeq(output, 1, 2)) \o <<[hex |-> output[3]]>>

(***************************************************************************)
(* The state of App: the useState cells of the create tab, the wallet and  *)
(* explorer requests in flight, and the chain the explorer serves.         *)
(***************************************************************************)
VARIABLES
    connected,              \* useState(false)
    mode,                   \* "utf8" | "hex"
    dataInput,              \* the text of the textarea
    wscriptHex,             \* text; <<>> is ""
    p2wshAddress,           \* <<>> is ""
    p2wshScriptPubKeyHex,   \* <<>> is ""
    wscriptLen,
    fundAmount,
    fundingTxid,            \* a string
    fundingVout,            \* number | "": <<n>> or <<>>
    fundingValue,           \* number | "": <<n>> or <<>>
    recipient,              \* a string
    sendFee,
    spendTxid,              \* a string
    building,
    broadcasting,
    message,                \* the parts of the message text; <<>> is ""
    chain,                  \* txid -> the outputs of the transaction
    sends,                  \* the sendBitcoin calls awaiting the wallet
    fetches,                \* the auto-detect fetches awaiting the explorer
    spend,                  \* the broadcast in flight, or Null
    steps,                  \* the number of steps taken
    call,                   \* codec specification: the function and argument
    result                  \* codec specification: <<>> or <<outcome>>

appVars == <<connected, mode, dataInput, wscriptHex, p2wshAddress,
             p2wshScriptPubKeyHex, wscriptLen, fundAmount, fundingTxid,
             fundingVout, fundingValue, recipient, sendFee, spendTxid,
             building, broadcasting, message, chain, sends, fetches, spend, steps>>
vars == <<appVars, call, result>>

derived == <<wscriptHex, p2wshAddress, p2wshScriptPubKeyHex, wscriptLen>>

\* The relay policy ceiling on the witness script.
MaxScriptLen == 3500
\* The least amount fundP2WSH sends.
MinFundAmount == 400

(***************************************************************************)
(* The inputs of the model.                                                *)
(***************************************************************************)
\* "Hello from P2WSH!", the initial text
Hello == <<72, 101, 108, 108, 111, 32, 102, 114, 111, 109, 32, 80, 50, 87, 83, 72, 33>>
\* The generator of secp256k1, uncompressed: a 65-byte payload that is a point.
PointBytes ==
    <<4>> \o
    <<121, 190, 102, 126, 249, 220, 187, 172, 85, 160, 98, 149, 206, 135, 11, 7,
      2, 155, 252, 219, 45, 206, 40, 217, 89, 242, 129, 91, 22, 248, 23, 152>> \o
    <<72, 58, 218, 119, 38, 163, 196, 101, 93, 164, 251, 252, 14, 17, 8, 168,
      253, 23, 180, 72, 166, 133, 84, 25, 156, 71, 208, 143, 251, 16, 212, 184>>

\* The texts typed into the textarea: the initial one (17 characters, so no
\* hex), the hex of the point, and 3494 times "a", whose UTF-8 envelope is
\* one byte over the ceiling and which is the hex of 1747 bytes.
DataInputs == { Hello, ToHex(PointBytes), Rep(97, MaxScriptLen - 6) }
Modes == {"utf8", "hex"}
\* The amounts typed into "Amount (sats)", besides the initial one.
InitialFundAmount == 1500
FundAmounts == {InitialFundAmount, MinFundAmount - 1}
\* The transaction ids the wallet returns, in order, and the id of a
\* transaction the explorer does not know; each stands for 64 hex digits.
TxIds == <<"tx1", "tx2", "tx3">>
OtherTxid == "tx0"
\* A testnet address, and the wallet's own change address (a key hash).
GoodRecipient == "tb1q-recipient"
ChangeAddress == <<"tb", 0, [hash160 |-> <<>>]>>
\* The fees typed into "Fee (sats, flat)", besides the initial one.
InitialSendFee == 900
SendFees == {0, InitialSendFee, InitialFundAmount, InitialFundAmount + 1}

(***************************************************************************)
(* The effect on [mode, dataInput] (App.tsx 175-202): the derived cells    *)
(* after it ran for mode m and text d.                                     *)
(***************************************************************************)
InputBytes(m, d) == IF m = "utf8" THEN Return(utf8ToBytes(d)) ELSE hexToBytes(d)

\* e.message.includes("Hex length") || e.message.includes("even")
IsHexLengthError(msg) == msg = "Hex length must be even"

\* What the try block of the effect computes for mode m and text d: the
\* error thrown by hexToBytes, or the script, its hex and its length, and,
\* when the script is within the ceiling, the outcome of p2wsh.
EffectOutcome(m, d) ==
    LET bytes == InputBytes(m, d)
    IN  IF IsThrow(bytes) THEN bytes
        ELSE LET wscript == buildEnvelopeScript(bytes.ok)
             IN  [wscriptHex |-> ToHex(wscript),
                  wscriptLen |-> Len(wscript),
                  p2wsh |-> IF Len(wscript) <= MaxScriptLen THEN p2wsh(wscript)
                            ELSE Null]

\* EffectOutcome for every mode and text of the model, computed once.
EffectTable ==
    {[mode |-> m, text |-> d, outcome |-> EffectOutcome(m, d)] :
        m \in Modes, d \in DataInputs}
EffectOf(m, d) == (CHOOSE e \in EffectTable : e.mode = m /\ e.text = d).outcome

WitnessScriptEffect(m, d) ==
    LET o == EffectOf(m, d)
    IN  IF IsThrow(o) THEN
            IF IsHexLengthError(o.error)
            THEN /\ wscriptHex' = <<>>
                 /\ p2wshAddress' = <<>>
                 /\ p2wshScriptPubKeyHex' = <<>>
                 /\ wscriptLen' = 0
            ELSE UNCHANGED derived
        ELSE /\ wscriptHex' = o.wscriptHex
             /\ wscriptLen' = o.wscriptLen
             /\ IF o.p2wsh = Null THEN
                    \* over the ceiling: the address is cleared
                    /\ p2wshAddress' = <<>>
                    /\ p2wshScriptPubKeyHex' = <<>>
                ELSE IF IsThrow(o.p2wsh) THEN
                    \* caught; the message has no "Hex length" or "even"
                    UNCHANGED <<p2wshAddress, p2wshScriptPubKeyHex>>
                ELSE /\ p2wshAddress' = o.p2wsh.ok.address
                     /\ p2wshScriptPubKeyHex' = OutputHex(o.p2wsh.ok.output)

(***************************************************************************)
(* Init: the state after App is mounted and the effect ran for the initial *)
(* mode and text.                                                          *)
(***************************************************************************)
InitialScript == buildEnvelopeScript(utf8ToBytes(Hello))

CellsInit ==
    /\ connected = FALSE
    /\ mode = "utf8"
    /\ dataInput = Hello
    /\ wscriptHex = ToHex(InitialScript)
    /\ wscriptLen = Len(InitialScript)
    /\ p2wshAddress = p2wsh(InitialScript).ok.address
    /\ p2wshScriptPubKeyHex = OutputHex(p2wsh(InitialScript).ok.output)
    /\ fundAmount = InitialFundAmount
    /\ fundingTxid = ""
    /\ fundingVout = <<>>
    /\ fundingValue = <<>>
    /\ recipient = ""
    /\ sendFee = InitialSendFee
    /\ spendTxid = <<>>
    /\ building = FALSE
    /\ broadcasting = FALSE
    /\ message = <<>>
    /\ sends = {}
    /\ fetches = {}
    /\ spend = Null
    /\ steps = 0

\* No transaction of the wallet is on the chain yet.
AppInit == CellsInit /\ chain = <<>>

Init == AppInit /\ call = Null /\ result = <<>>

\* JavaScript truthiness of the error text: e?.message || ...
ErrorMsg(e) == <<e>>

\* Every handler is one event; the model handles at most MaxSteps events.
\* The handlers leave the call of the codec alone.
Tick ==
    /\ steps < MaxSteps
    /\ steps' = steps + 1
    /\ UNCHANGED <<call, result>>

(***************************************************************************)
(* Edits of the form fields.  An onChange runs when the value changes; the *)
(* effect on [mode, dataInput] runs before the next event is handled.      *)
(***************************************************************************)
SetMode(m) ==
    /\ Tick
    /\ m # mode
    /\ mode' = m
    /\ WitnessScriptEffect(m, dataInput)
    /\ UNCHANGED <<connected, dataInput, fundAmount, fundingTxid, fundingVout,
                   fundingValue, recipient, sendFee, spendTxid, building,
                   broadcasting, message, chain, sends, fetches, spend>>

SetDataInput(d) ==
    /\ Tick
    /\ d # dataInput
    /\ dataInput' = d
    /\ WitnessScriptEffect(mode, d)
    /\ UNCHANGED <<connected, mode, fundAmount, fundingTxid, fundingVout,
                   fundingValue, recipient, sendFee, spendTxid, building,
                   broadcasting, message, chain, sends, fetches, spend>>

SetFundAmount(a) ==
    /\ Tick
    /\ a # fundAmount
    /\ fundAmount' = a
    /\ UNCHANGED <<derived, connected, mode, dataInput, fundingTxid, fundingVout,
                   fundingValue, recipient, sendFee, spendTxid, building,
                   broadcasting, message, chain, sends, fetches, spend>>

\* setFundingTxid(e.target.value.trim())
SetFundingTxid(t) ==
    /\ Tick
    /\ t # fundingTxid
    /\ fundingTxid' = t
    /\ UNCHANGED <<derived, connected, mode, dataInput, fundAmount, fundingVout,
                   fundingValue, recipient, sendFee, spendTxid, building,
                   broadcasting, message, chain, sends, fetches, spend>>

\* setFundingVout(Number(e.target.value))
SetFundingVout(n) ==
    /\ Tick
    /\ <<n>> # fundingVout
    /\ fundingVout' = <<n>>
    /\ UNCHANGED <<derived, connected, mode, dataInput, fundAmount, fundingTxid,
                   fundingValue, recipient, sendFee, spendTxid, building,
                   broadcasting, message, chain, sends, fetches, spend>>

\* setFundingValue(Number(e.target.value))
SetFundingValue(v) ==
    /\ Tick
    /\ <<v>> # fundingValue
    /\ fundingValue' = <<v>>
    /\ UNCHANGED <<derived, connected, mode, dataInput, fundAmount, fundingTxid,
                   fundingVout, recipient, sendFee, spendTxid, building,
                   broadcasting, message, chain, sends, fetches, spend>>

\* setRecipient(e.target.value.trim())
SetRecipient(r) ==
    /\ Tick
    /\ r # recipient
    /\ recipient' = r
    /\ UNCHANGED <<derived, connected, mode, dataInput, fundAmount, fundingTxid,
                   fundingVout, fundingValue, sendFee, spendTxid, building,
                   broadcasting, message, chain, sends, fetches, spend>>

\* setSendFee(Number(e.target.value))
SetSendFee(f) ==
    /\ Tick
    /\ f # sendFee
    /\ sendFee' = f
    /\ UNCHANGED <<derived, connected, mode, dataInput, fundAmount, fundingTxid,
                   fundingVout, fundingValue, recipient, spendTxid, building,
                   broadcasting, message, chain, sends, fetches, spend>>

(***************************************************************************)
(* connect (App.tsx 225-243), at the time its awaits have resolved, for a   *)
(* click while not connected.                                              *)
(***************************************************************************)
ConnectOk ==
    /\ Tick
    /\ ~connected
    /\ connected' = TRUE
    /\ message' = <<"Connected to UniSat on testnet.">>
    /\ UNCHANGED <<derived, mode, dataInput, fundAmount, fundingTxid, fundingVout,
                   fundingValue, recipient, sendFee, spendTxid, building,
                   broadcasting, chain, sends, fetches, spend>>

(***************************************************************************)
(* fundP2WSH (App.tsx 245-262).  The button is enabled when canFund holds. *)
(* The callback reads the cells of the render it was created in; the call  *)
(* of sendBitcoin is awaited, and other handlers run meanwhile.            *)
(***************************************************************************)
canFund == connected /\ p2wshAddress # <<>> /\ wscriptLen > 0

\* A variant of FundCheck without the check of the amount.
FundCheckWithoutMinimum ==
    IF p2wshAddress = <<>> THEN <<"P2WSH address not ready">>
    ELSE IF wscriptLen = 0 THEN <<"Witness script empty">>
    ELSE IF wscriptLen > MaxScriptLen
        THEN <<"Script > 3500 bytes - exceeds relay policy limit. Please reduce your data.">>
    ELSE <<>>

\* The Error thrown by the checks of fundP2WSH, or <<>>.
FundCheck ==
    IF p2wshAddress = <<>> THEN <<"P2WSH address not ready">>
    ELSE IF wscriptLen = 0 THEN <<"Witness script empty">>
    ELSE IF wscriptLen > MaxScriptLen
        THEN <<"Script > 3500 bytes - exceeds relay policy limit. Please reduce your data.">>
    ELSE IF fundAmount < MinFundAmount
        THEN <<"Fund amount too low; use at least ~400 sats for P2WSH">>
    ELSE <<>>

FundClick ==
    /\ Tick
    /\ canFund
    /\ Len(chain) + Cardinality(sends) < MaxFunds
    /\ IF FundCheck # <<>>
       THEN /\ message' = FundCheck
            /\ UNCHANGED sends
       ELSE /\ message' = <<>>
            /\ sends' = sends \cup {[address |-> p2wshAddress, amount |-> fundAmount]}
    /\ UNCHANGED <<derived, connected, mode, dataInput, fundAmount, fundingTxid,
                   fundingVout, fundingValue, recipient, sendFee, spendTxid,
                   building, broadcasting, chain, fetches, spend>>

\* The outputs of the wallet's transaction: the payment and the change, in
\* either order.
FundingOutputs(c) ==
    LET pay == [scriptpubkey_address |-> c.address, value |-> c.amount]
        change == [scriptpubkey_address |-> ChangeAddress, value |-> 5000]
    IN  {<<pay, change>>, <<change, pay>>}

\* sendBitcoin resolves with the txid of the transaction the wallet sent.
FundResolve ==
    /\ Tick
    /\ \E c \in sends : \E outs \in FundingOutputs(c) :
        /\ sends' = sends \ {c}
        /\ chain' = Append(chain, outs)
        /\ fundingTxid' = TxIds[Len(chain) + 1]
        /\ message' = <<"Funding sent. Paste vout or use auto-detect.">>
        /\ UNCHANGED <<derived, connected, mode, dataInput, fundAmount, fundingVout,
                       fundingValue, recipient, sendFee, spendTxid, building,
                       broadcasting, fetches, spend>>

\* sendBitcoin rejects.
FundReject ==
    /\ Tick
    /\ \E c \in sends :
        /\ sends' = sends \ {c}
        /\ message' = ErrorMsg("User rejected the request.")
        /\ UNCHANGED <<derived, connected, mode, dataInput, fundAmount, fundingTxid,
                       fundingVout, fundingValue, recipient, sendFee, spendTxid,
                       building, broadcasting, chain, fetches, spend>>

(***************************************************************************)
(* autodetectVout (App.tsx 264-280).                                       *)
(***************************************************************************)
DetectClick ==
    /\ Tick
    /\ IF fundingTxid = "" \/ p2wshAddress = <<>>
       THEN /\ message' = ErrorMsg("Need funding txid and P2WSH address")
            /\ UNCHANGED fetches
       ELSE /\ Cardinality(fetches) < MaxFetches
            /\ fetches' = fetches \cup {[txid |-> fundingTxid, address |-> p2wshAddress]}
            /\ UNCHANGED message
    /\ UNCHANGED <<derived, connected, mode, dataInput, fundAmount, fundingTxid,
                   fundingVout, fundingValue, recipient, sendFee, spendTxid,
                   building, broadcasting, chain, sends, spend>>

\* The explorer knows the transactions of the chain.
OnChain(t) == \E i \in 1..Len(chain) : TxIds[i] = t
TxOf(t) == chain[CHOOSE i \in 1..Len(chain) : TxIds[i] = t]

\* An index search that returns the last match instead of the first.
FindLastIndex(vout, address) ==
    IF \E i \in DOMAIN vout : vout[i].scriptpubkey_address = address
    THEN (CHOOSE i \in DOMAIN vout :
              /\ vout[i].scriptpubkey_address = address
              /\ \A j \in (i + 1)..Len(vout) : vout[j].scriptpubkey_address # address) - 1
    ELSE -1

\* tx.vout.findIndex(o => o.scriptpubkey_address === address): 0-based, or -1.
FindIndex(vout, address) ==
    IF \E i \in DOMAIN vout : vout[i].scriptpubkey_address = address
    THEN (CHOOSE i \in DOMAIN vout :
              /\ vout[i].scriptpubkey_address = address
              /\ \A j \in 1..(i - 1) : vout[j].scriptpubkey_address # address) - 1
    ELSE -1

\* The fetch is answered with the transaction.
DetectResolve ==
    /\ Tick
    /\ \E f \in fetches :
        /\ OnChain(f.txid)
        /\ fetches' = fetches \ {f}
        /\ LET vout == TxOf(f.txid)
               idx == FindIndex(vout, f.address)
           IN  IF idx < 0
               THEN /\ message' = ErrorMsg("Could not find P2WSH output in that tx")
                    /\ UNCHANGED <<fundingVout, fundingValue>>
               ELSE /\ fundingVout' = <<idx>>
                    /\ fundingValue' = <<vout[idx + 1].value>>
                    /\ message' = <<"Detected vout=", idx, ", value=",
                                    vout[idx + 1].value, " sats">>
        /\ UNCHANGED <<derived, connected, mode, dataInput, fundAmount, fundingTxid,
                       recipient, sendFee, spendTxid, building, broadcasting,
                       chain, sends, spend>>

\* The fetch is answered with an error status, or is rejected.
DetectFail ==
    /\ Tick
    /\ \E f \in fetches :
        /\ fetches' = fetches \ {f}
        /\ message' \in {ErrorMsg("Failed to fetch tx from mempool.space"),
                         ErrorMsg("Failed to fetch")}
        /\ UNCHANGED <<derived, connected, mode, dataInput, fundAmount, fundingTxid,
                       fundingVout, fundingValue, recipient, sendFee, spendTxid,
                       building, broadcasting, chain, sends, spend>>

(***************************************************************************)
(* buildAndBroadcastSpend (App.tsx 282-382).  The button is enabled when   *)
(* canSpend holds and neither building nor broadcasting is set.  The code  *)
(* up to the first await (the checks and the build) runs as one step.      *)
(***************************************************************************)
canSpend == fundingTxid # "" /\ fundingVout # <<>> /\ fundingValue # <<>> /\ recipient # ""

\* A variant of SpendCheck that accepts a fee equal to the input value
\* (fee > value for fee >= value).
SpendCheckFeeInclusive ==
    IF wscriptLen = 0 \/ wscriptHex = <<>> THEN <<"witnessScript missing">>
    ELSE IF fundingTxid = "" \/ fundingVout = <<>> \/ fundingValue = <<>>
        THEN <<"Missing funding outpoint or value">>
    ELSE IF recipient = "" THEN <<"Recipient address required">>
    ELSE IF sendFee <= 0 \/ sendFee > fundingValue[1]
        THEN <<"Fee must be >0 and < input value">>
    ELSE <<>>

\* A variant of SpendCheck without the check of the fee.
SpendCheckWithoutFee ==
    IF wscriptLen = 0 \/ wscriptHex = <<>> THEN <<"witnessScript missing">>
    ELSE IF fundingTxid = "" \/ fundingVout = <<>> \/ fundingValue = <<>>
        THEN <<"Missing funding outpoint or value">>
    ELSE IF recipient = "" THEN <<"Recipient address required">>
    ELSE <<>>

\* The Error thrown by the checks of lines 287-292, or <<>>.
SpendCheck ==
    IF wscriptLen = 0 \/ wscriptHex = <<>> THEN <<"witnessScript missing">>
    ELSE IF fundingTxid = "" \/ fundingVout = <<>> \/ fundingValue = <<>>
        THEN <<"Missing funding outpoint or value">>
    ELSE IF recipient = "" THEN <<"Recipient address required">>
    ELSE IF sendFee <= 0 \/ sendFee >= fundingValue[1]
        THEN <<"Fee must be >0 and < input value">>
    ELSE <<>>

\* A variant of BuildSpend whose output pays the whole input value.
BuildSpendWholeValue ==
    LET wscript == FromHex(wscriptHex)
        p == p2wsh(wscript)
        value == fundingValue[1]
        finalWitness == witnessStackToScriptWitness(<<wscript>>)
    IN  IF IsThrow(p) THEN p
        ELSE Return([ins |-> <<[hash |-> fundingTxid,
                                index |-> fundingVout[1],
                                script |-> <<>>,
                                witness |-> finalWitness]>>,
                     outs |-> <<[address |-> recipient, value |-> value]>>])

\* Lines 303-332: the transaction extracted from the Psbt, or the error
\* p2wsh throws for a witness script it refuses.  The funding txid and the
\* recipient typed in the model are well formed, so addInput and addOutput
\* accept them.
BuildSpend ==
    LET wscript == FromHex(wscriptHex)
        p == p2wsh(wscript)
        value == fundingValue[1]
        finalWitness == witnessStackToScriptWitness(<<wscript>>)
    IN  IF IsThrow(p) THEN p
        ELSE Return([ins |-> <<[hash |-> fundingTxid,
                                index |-> fundingVout[1],
                                script |-> <<>>,
                                witness |-> finalWitness]>>,
                     outs |-> <<[address |-> recipient, value |-> value - sendFee]>>])

\* tx.toHex(), as a term over the transaction, and the id of a raw
\* transaction: the digest of its serialization without the witnesses.
RawTx(tx) == [rawtx |-> tx]
TxidOf(rawtx) ==
    <<[txid |-> [ins |-> [i \in DOMAIN rawtx.rawtx.ins |->
                            [hash |-> rawtx.rawtx.ins[i].hash,
                             index |-> rawtx.rawtx.ins[i].index,
                             script |-> rawtx.rawtx.ins[i].script]],
                 outs |-> rawtx.rawtx.outs]]>>

SpendClick ==
    /\ Tick
    /\ canSpend /\ ~building /\ ~broadcasting
    /\ IF SpendCheck # <<>>
       THEN /\ message' = <<"Error: ">> \o SpendCheck
            /\ building' = FALSE
            /\ broadcasting' = FALSE
            /\ UNCHANGED spend
       ELSE LET built == BuildSpend
            IN  IF IsThrow(built)
                THEN /\ message' = <<"Error: ", built.error>>
                     /\ building' = FALSE
                     /\ broadcasting' = FALSE
                     /\ UNCHANGED spend
                ELSE /\ message' = <<>>
                     /\ building' = FALSE
                     /\ broadcasting' = TRUE
                     /\ spend' = [stage |-> "pushTx", rawtx |-> RawTx(built.ok)]
    /\ UNCHANGED <<derived, connected, mode, dataInput, fundAmount, fundingTxid,
                   fundingVout, fundingValue, recipient, sendFee, spendTxid,
                   chain, sends, fetches>>

\* A variant of PushTxResolve that goes on to post the raw transaction after
\* the wallet has accepted it.
PushTxResolveThenPost ==
    /\ Tick
    /\ spend # Null /\ spend.stage = "pushTx"
    /\ spendTxid' = TxidOf(spend.rawtx)
    /\ broadcasting' = FALSE
    /\ message' = <<"Spend broadcasted via UniSat.">>
    /\ spend' = [stage |-> "post", rawtx |-> spend.rawtx, unisatError |-> ""]
    /\ UNCHANGED <<derived, connected, mode, dataInput, fundAmount, fundingTxid,
                   fundingVout, fundingValue, recipient, sendFee, building,
                   chain, sends, fetches>>

\* unisat.pushTx({rawtx}) resolves with the txid.
PushTxResolve ==
    /\ Tick
    /\ spend # Null /\ spend.stage = "pushTx"
    /\ spendTxid' = TxidOf(spend.rawtx)
    /\ broadcasting' = FALSE
    /\ message' = <<"Spend broadcasted via UniSat.">>
    /\ spend' = Null
    /\ UNCHANGED <<derived, connected, mode, dataInput, fundAmount, fundingTxid,
                   fundingVout, fundingValue, recipient, sendFee, building,
                   chain, sends, fetches>>

\* unisat.pushTx rejects (or unisat is undefined): the raw transaction is
\* posted to mempool.space.
PushTxReject ==
    /\ Tick
    /\ spend # Null /\ spend.stage = "pushTx"
    /\ spend' = [stage |-> "post", rawtx |-> spend.rawtx,
                 unisatError |-> "User rejected the request."]
    /\ UNCHANGED <<derived, connected, mode, dataInput, fundAmount, fundingTxid,
                   fundingVout, fundingValue, recipient, sendFee, spendTxid,
                   building, broadcasting, message, chain, sends, fetches>>

\* A variant of PostResolve that does not reset broadcasting.
PostResolveKeepsBroadcasting ==
    /\ Tick
    /\ spend # Null /\ spend.stage = "post"
    /\ spendTxid' = TxidOf(spend.rawtx)
    /\ message' = <<"Spend broadcasted via mempool.space.">>
    /\ spend' = Null
    /\ UNCHANGED <<derived, connected, mode, dataInput, fundAmount, fundingTxid,
                   fundingVout, fundingValue, recipient, sendFee, building,
                   broadcasting, chain, sends, fetches>>

\* The POST is answered with the txid.
PostResolve ==
    /\ Tick
    /\ spend # Null /\ spend.stage = "post"
    /\ spendTxid' = TxidOf(spend.rawtx)
    /\ broadcasting' = FALSE
    /\ message' = <<"Spend broadcasted via mempool.space.">>
    /\ spend' = Null
    /\ UNCHANGED <<derived, connected, mode, dataInput, fundAmount, fundingTxid,
                   fundingVout, fundingValue, recipient, sendFee, building,
                   chain, sends, fetches>>

\* A variant of PostFail whose message carries the error of the explorer only.
PostFailSecondErrorOnly ==
    /\ Tick
    /\ spend # Null /\ spend.stage = "post"
    /\ \E y \in {<<"Mempool API error: ", "bad-txns-inputs-missingorspent">>,
                 <<"Failed to fetch">>} :
          message' = <<"Error: ">> \o y
    /\ building' = FALSE
    /\ broadcasting' = FALSE
    /\ spend' = Null
    /\ UNCHANGED <<derived, connected, mode, dataInput, fundAmount, fundingTxid,
                   fundingVout, fundingValue, recipient, sendFee, spendTxid,
                   chain, sends, fetches>>

\* The POST is answered with an error status and a body, or is rejected: the
\* Error thrown in the inner catch is caught by the outer one.
PostFail ==
    /\ Tick
    /\ spend # Null /\ spend.stage = "post"
    /\ \E y \in {<<"Mempool API error: ", "bad-txns-inputs-missingorspent">>,
                 <<"Failed to fetch">>} :
          message' = <<"Error: ", "Both broadcast methods failed. UniSat: ",
                       spend.unisatError, ", Mempool: ">> \o y
    /\ building' = FALSE
    /\ broadcasting' = FALSE
    /\ spend' = Null
    /\ UNCHANGED <<derived, connected, mode, dataInput, fundAmount, fundingTxid,
                   fundingVout, fundingValue, recipient, sendFee, spendTxid,
                   chain, sends, fetches>>

\* The values of <<building, broadcasting>> after each setter call of the
\* code that runs from the click to the first await (or to the end of the
\* catch), starting from both false: setBuilding(true), setBroadcasting(false),
\* then setBuilding(false), setBroadcasting(true) when the transaction was
\* built, and the two resets of the catch when a check or the build threw.
SpendFlagWrites(built) ==
    <<[building |-> TRUE, broadcasting |-> FALSE],
      [building |-> TRUE, broadcasting |-> FALSE],
      [building |-> FALSE, broadcasting |-> FALSE],
      [building |-> FALSE, broadcasting |-> built]>>

(***************************************************************************)
(* The specification of the application.                                   *)
(***************************************************************************)
TypedTxids == {OtherTxid} \cup {TxIds[i] : i \in 1..Len(chain)}
Recipients == {GoodRecipient}

Next ==
    \/ \E m \in Modes : SetMode(m)
    \/ \E d \in DataInputs : SetDataInput(d)
    \/ \E a \in FundAmounts : SetFundAmount(a)
    \/ \E t \in TypedTxids : SetFundingTxid(t)
    \/ \E n \in {0} : SetFundingVout(n)
    \/ \E v \in {InitialFundAmount} : SetFundingValue(v)
    \/ \E r \in Recipients : SetRecipient(r)
    \/ \E f \in SendFees : SetSendFee(f)
    \/ ConnectOk
    \/ FundClick
    \/ FundResolve
    \/ FundReject
    \/ DetectClick
    \/ DetectResolve
    \/ DetectFail
    \/ SpendClick
    \/ PushTxResolve
    \/ PushTxReject
    \/ PostResolve
    \/ PostFail


Spec == Init /\ [][Next]_vars

(***************************************************************************)
(* The create tab alone: the mode, the text and the amount are edited, in   *)
(* any order, and the effect runs after each edit of the mode or the text. *)
(***************************************************************************)
CreateNext ==
    \/ \E m \in Modes : SetMode(m)
    \/ \E d \in DataInputs : SetDataInput(d)
    \/ \E a \in FundAmounts : SetFundAmount(a)

SpecCreate == Init /\ [][CreateNext]_vars

(***************************************************************************)
(* autodetectVout against transactions the explorer knows that were not    *)
(* made through the component: a txid typed into the field may name any    *)
(* transaction of the chain, with any number of outputs to the address.    *)
(***************************************************************************)
\* The address of the initial text, and of the second text of DataInputs.
HelloAddress == p2wsh(InitialScript).ok.address
PointTextAddress == EffectOf("utf8", ToHex(PointBytes)).p2wsh.ok.address

\* tx1 pays the first address twice, after a change output; tx2 pays both
\* addresses, the second one first; tx3 pays neither.
ExplorerChain ==
    LET change == [scriptpubkey_address |-> ChangeAddress, value |-> 5000]
        out(a, v) == [scriptpubkey_address |-> a, value |-> v]
    IN  << <<change, out(HelloAddress, InitialFundAmount),
                     out(HelloAddress, InitialFundAmount + 500)>>,
           <<out(PointTextAddress, 700), out(HelloAddress, 800),
                     out(PointTextAddress, 900)>>,
           <<change>> >>

DetectInit == CellsInit /\ chain = ExplorerChain /\ call = Null /\ result = <<>>

DetectNext ==
    \/ \E d \in DataInputs : SetDataInput(d)
    \/ \E t \in TypedTxids : SetFundingTxid(t)
    \/ DetectClick
    \/ DetectResolve
    \/ DetectFail

SpecDetect == DetectInit /\ [][DetectNext]_vars

(***************************************************************************)
(* The specification of the codec: Init draws a function and its argument, *)
(* and the action of the function applies it.                              *)
(***************************************************************************)
\* Sizes around the limits of the three forms, as wide numbers; the last
\* ones are 0xffffffff, 0x100000000, 0x100000001 and 2^36.
SizeInputs ==
    {Wide(n) : n \in (0..300) \cup {65534, 65535, 65536, 65537, 16777215, 16777216}}
    \cup {<<32768, 0>>, <<65535, 65535>>, <<65536, 0>>, <<65536, 1>>, <<1048576, 0>>}

\* Witness stacks: up to MaxStack items of lengths around the limit of the
\* one-byte size, and a stack of 253 empty items.
ItemSamples == {<<>>, <<1>>, <<0, 255>>, Rep(7, 252), Rep(8, 253), Rep(9, 300)}
Stacks ==
    UNION {[1..n -> ItemSamples] : n \in 0..MaxStack} \cup {Rep(<<>>, 253)}

\* Payloads: every string over SampleBytes up to MaxSmallLen bytes, every
\* single byte, and payloads at the limits of the push forms, up to 520 bytes.
SampleBytes == {0, 1, 16, 17, 76, 129, 255}
SmallPayloads == UNION {[1..n -> SampleBytes] : n \in 0..MaxSmallLen}
SingleBytes == {<<b>> : b \in 0..255}
LongPayloads == {Rep(b, n) : b \in {0, 97}, n \in {75, 76, 255, 256, 519, 520}}
Payloads == SmallPayloads \cup SingleBytes \cup LongPayloads

\* Payloads of the inscription: lengths around the multiples of
\* MaxChunkSize, with bytes that differ from place to place, single bytes
\* that have an opcode of their own, and a payload whose last chunk is one.
Pattern(n) == [i \in 1..n |-> 32 + ((i * 7) % 191)]
InscriptionPayloads ==
    {Pattern(n) : n \in {0, 1, 2, 519, 520, 521, 1039, 1040, 1041, 1561}}
    \cup {<<0>>, <<1>>, <<16>>, <<129>>, Pattern(520) \o <<5>>}

\* "text/plain", the default "text/plain;charset=utf-8", "" and a text with
\* a character beyond ASCII.
TextPlain == <<116, 101, 120, 116, 47, 112, 108, 97, 105, 110>>
DefaultContentType ==
    TextPlain \o <<59, 99, 104, 97, 114, 115, 101, 116, 61, 117, 116, 102, 45, 56>>
ContentTypes == {TextPlain, DefaultContentType, <<>>, <<233>>}
InscriptionArgs ==
    {[dataBytes |-> P, contentType |-> ct] : P \in InscriptionPayloads, ct \in ContentTypes}

\* Scripts given to parseEnvelopeScript: two opening elements, up to
\* MaxMiddle elements (pushes of aa and of aa bb, OP_1, OP_0, a push of the
\* byte 01 that is not minimal, OP_DROP) and the closing elements, right or
\* wrong; scripts whose push runs past the end; texts that are not hex, of
\* odd length, in upper case; and a value that is no string.
RECURSIVE Flatten(_)
Flatten(ss) == IF ss = <<>> THEN <<>> ELSE Head(ss) \o Flatten(Tail(ss))
MiddleElements == {<<1, 170>>, <<2, 170, 187>>, <<81>>, <<0>>, <<1, 1>>, <<117>>}
ScriptSamples ==
    {open \o Flatten(mid) \o close :
        open \in {<<0, 99>>, <<81, 99>>, <<0, 100>>},
        mid \in UNION {[1..n -> MiddleElements] : n \in 0..MaxMiddle},
        close \in {<<104, 81>>, <<103, 81>>, <<104, 82>>, <<104>>}}
TruncatedScripts ==
    {<<0, 99, 5, 170, 187, 104, 81>>, <<0, 99, 76>>, <<0, 99, 77, 1>>,
     <<0, 99, 78, 0, 0, 0, 64>>, <<>>}
OtherTexts ==
    {<<122, 122>>, <<104, 101, 108, 108, 111>>, <<48, 48, 54, 51, 48>>,
     <<48, 48, 54, 51, 122, 122, 54, 56, 53, 49>>,
     <<48, 48, 54, 51, 48, 50, 65, 65, 66, 66, 54, 56, 53, 49>>}
ParseArgs ==
    {JsonString(ToHex(b)) : b \in ScriptSamples \cup TruncatedScripts}
    \cup {JsonString(t) : t \in OtherTexts}
    \cup {JsonNumber(5)}

\* Texts handed to hexToBytes: every string of at most MaxHexLen characters
\* over digits, letters that are hex digits in either case, letters that are
\* not, white space and "x", and two prefixed strings with a bad digit.
HexSampleChars == {48, 49, 97, 70, 103, 122, 32, 120}
HexTexts ==
    UNION {[1..n -> HexSampleChars] : n \in 0..MaxHexLen}
    \cup {<<48, 120, 49, 103>>, <<32, 122, 122, 32>>}

\* Payload lengths at the edges of the push encodings and of the ceiling, and
\* the texts of the textarea that give them: a repeated letter in utf8 mode,
\* the hex digits of patterned bytes and of the curve point in hex mode.
EnvelopeLengths ==
    {0, 1, 2, 3, 75, 76, 255, 256, 520, 521,
     MaxScriptLen - 8, MaxScriptLen - 7, MaxScriptLen - 6, MaxScriptLen, 65535}
EffectArgs ==
    {[mode |-> "utf8", text |-> Rep(97, n)] : n \in EnvelopeLengths}
    \cup {[mode |-> "hex", text |-> ToHex(Pattern(n))] : n \in {2, 64, 65, 66}}
    \cup {[mode |-> "hex", text |-> ToHex(PointBytes)]}

\* Witness items of fetched transactions: the hex of two bare envelopes, of a
\* signature-like push, of an inscription script and of an envelope cut
\* short, the empty string and a number; witness stacks of at most MaxStack
\* items; inputs with such a stack or with no witness; transactions of one
\* or two inputs.
WitnessItems ==
    {JsonString(ToHex(buildEnvelopeScript(<<170, 187>>))),
     JsonString(ToHex(buildEnvelopeScript(Hello))),
     JsonString(ToHex(<<48, 68, 2, 32>>)),
     JsonString(ToHex(buildInscriptionScript(<<170, 187>>, TextPlain))),
     JsonString(<<>>),
     JsonNumber(5)}
WitnessStacks == UNION {[1..n -> WitnessItems] : n \in 0..MaxStack}
TxInputs ==
    {[txid |-> "tx1", vout |-> 0, witness |-> w] : w \in WitnessStacks}
    \cup {[txid |-> "tx1", vout |-> 0]}
SecondInputs ==
    {[txid |-> "tx2", vout |-> 1],
     [txid |-> "tx2", vout |-> 1,
      witness |-> <<JsonString(ToHex(<<48, 68, 2, 32>>)),
                    JsonString(ToHex(buildEnvelopeScript(<<170, 187>>)))>>],
     [txid |-> "tx2", vout |-> 1,
      witness |-> <<JsonString(ToHex(buildEnvelopeScript(<<170, 187>>))),
                    JsonString(ToHex(<<48, 68, 2, 32>>))>>]}
TxOutputs ==
    <<[value |-> 600, scriptpubkey_address |-> "tb1q-recipient"], [value |-> 0]>>
FetchedTransactions ==
    {[vin |-> <<a>>, vout |-> TxOutputs] : a \in TxInputs}
    \cup {[vin |-> <<a, b>>, vout |-> TxOutputs] : a \in TxInputs, b \in SecondInputs}

CodecCalls ==
    {[fn |-> "encodeCompactSize", arg |-> n] : n \in SizeInputs}
    \cup {[fn |-> "witnessStackToScriptWitness", arg |-> st] : st \in Stacks}
    \cup {[fn |-> "roundTrip", arg |-> P] : P \in Payloads}
    \cup {[fn |-> "buildInscriptionScript", arg |-> a] : a \in InscriptionArgs}
    \cup {[fn |-> "parseInscription", arg |-> a] : a \in InscriptionArgs}
    \cup {[fn |-> "parseEnvelopeScript", arg |-> a] : a \in ParseArgs}
    \cup {[fn |-> "hexToBytes", arg |-> t] : t \in HexTexts}
    \cup {[fn |-> "effect", arg |-> a] : a \in EffectArgs}
    \cup {[fn |-> "decodeTransaction", arg |-> t] : t \in FetchedTransactions}

CodecInit == AppInit /\ call \in CodecCalls /\ result = <<>>

RunEncodeCompactSize ==
    /\ call.fn = "encodeCompactSize" /\ result = <<>>
    /\ result' = <<encodeCompactSize(call.arg)>>
    /\ UNCHANGED <<appVars, call>>

RunWitnessStack ==
    /\ call.fn = "witnessStackToScriptWitness" /\ result = <<>>
    /\ result' = <<witnessStackToScriptWitness(call.arg)>>
    /\ UNCHANGED <<appVars, call>>

\* parseEnvelopeScript(buildEnvelopeScript(P).toString("hex"))
RunRoundTrip ==
    /\ call.fn = "roundTrip" /\ result = <<>>
    /\ result' = <<parseEnvelopeScript(JsonString(ToHex(buildEnvelopeScript(call.arg))))>>
    /\ UNCHANGED <<appVars, call>>

RunBuildInscription ==
    /\ call.fn = "buildInscriptionScript" /\ result = <<>>
    /\ result' = <<buildInscriptionScript(call.arg.dataBytes, call.arg.contentType)>>
    /\ UNCHANGED <<appVars, call>>

\* parseEnvelopeScript(buildInscriptionScript(P, ct).toString("hex"))
RunParseInscription ==
    /\ call.fn = "parseInscription" /\ result = <<>>
    /\ result' = <<parseEnvelopeScript(JsonString(ToHex(
                       buildInscriptionScript(call.arg.dataBytes, call.arg.contentType))))>>
    /\ UNCHANGED <<appVars, call>>

RunParseEnvelope ==
    /\ call.fn = "parseEnvelopeScript" /\ result = <<>>
    /\ result' = <<parseEnvelopeScript(call.arg)>>
    /\ UNCHANGED <<appVars, call>>

RunHexToBytes ==
    /\ call.fn = "hexToBytes" /\ result = <<>>
    /\ result' = <<hexToBytes(call.arg)>>
    /\ UNCHANGED <<appVars, call>>

\* The try block of the effect for one mode and text.
RunEffect ==
    /\ call.fn = "effect" /\ result = <<>>
    /\ result' = <<EffectOutcome(call.arg.mode, call.arg.text)>>
    /\ UNCHANGED <<appVars, call>>

\* fetchAndDecodeTransaction after the fetch resolved with txData.
RunDecodeTransaction ==
    /\ call.fn = "decodeTransaction" /\ result = <<>>
    /\ result' = <<DecodeTransaction("tx3", call.arg)>>
    /\ UNCHANGED <<appVars, call>>

CodecNext ==
    \/ RunEncodeCompactSize
    \/ RunWitnessStack
    \/ RunRoundTrip
    \/ RunBuildInscription
    \/ RunParseInscription
    \/ RunParseEnvelope
    \/ RunHexToBytes
    \/ RunEffect
    \/ RunDecodeTransaction

SpecCodec == CodecInit /\ [][CodecNext]_vars

(***************************************************************************)
(* Properties of the codec, checked under SpecCodec.                       *)
(***************************************************************************)
\* The function fn was called and has returned.
Called(fn) == call # Null /\ call.fn = fn /\ result # <<>>

\* C1: parsing the envelope script built for a payload P returns P, for the
\* payloads of every length from 0 to 520 bytes, the empty payload and every
\* one-byte payload included.
C1_RoundTrip ==
    Called("roundTrip") => result[1] # Null /\ result[1].data = call.arg

\* The payloads whose push compiles to a single opcode: the empty payload,
\* the bytes 1 to 16 and the byte 0x81.
CompiledToOpcode(P) ==
    \/ P = <<>>
    \/ Len(P) = 1 /\ ((P[1] >= 1 /\ P[1] <= 16) \/ P[1] = 129)

\* What the code does for C1: the round trip returns P unless the push of P
\* compiles to a single opcode, and returns null then.
RoundTripUnlessOpcode ==
    Called("roundTrip") =>
        IF CompiledToOpcode(call.arg) THEN result[1] = Null
        ELSE result[1] # Null /\ result[1].data = call.arg

\* C7: encodeCompactSize returns the single byte n for n below 253, 0xfd and
\* n as two bytes little-endian for n up to 65535, 0xfe and n as four bytes
\* little-endian for n up to 0xffffffff, and raises an error above that;
\* 0 gives 00, 252 gives fc, 253 gives fd fd 00, 65535 gives fd ff ff and
\* 65536 gives fe 00 00 01 00.
C7_CompactSize ==
    Called("encodeCompactSize") =>
        LET hi == call.arg[1]
            lo == call.arg[2]
            r == result[1]
        IN  /\ (hi = 0 /\ lo <= 252) => r = [ok |-> <<lo>>]
            /\ (hi = 0 /\ lo >= 253) => r = [ok |-> <<253, lo % 256, lo \div 256>>]
            /\ (hi >= 1 /\ hi <= 65535) =>
                   r = [ok |-> <<254, lo % 256, lo \div 256, hi % 256, hi \div 256>>]
            /\ hi > 65535 => "error" \in DOMAIN r
            /\ call.arg = <<0, 0>> => r = [ok |-> <<0>>]
            /\ call.arg = <<0, 252>> => r = [ok |-> <<252>>]
            /\ call.arg = <<0, 253>> => r = [ok |-> <<253, 253, 0>>]
            /\ call.arg = <<0, 65535>> => r = [ok |-> <<253, 255, 255>>]
            /\ call.arg = <<1, 0>> => r = [ok |-> <<254, 0, 0, 1, 0>>]
            /\ call.arg = <<65535, 65535>> => r = [ok |-> <<254, 255, 255, 255, 255>>]
            /\ call.arg = <<65536, 0>> => r = [error |-> "compactSize too large"]

C7_Witness ==
    /\ Called("encodeCompactSize")
    /\ call.arg = <<1, 0>>
    /\ result[1] = [ok |-> <<254, 0, 0, 1, 0>>]

\* The serialization of item k of a stack, and the length of the
\* serializations of the items a to b.
WitnessItem(stack, k) == SizePrefix(Len(stack[k])) \o stack[k]
RECURSIVE ItemsLen(_, _, _)
ItemsLen(stack, a, b) ==
    IF a > b THEN 0
    ELSE IF a = b THEN Len(WitnessItem(stack, a))
    ELSE LET m == (a + b) \div 2
         IN  ItemsLen(stack, a, m) + ItemsLen(stack, m + 1, b)

\* C8: witnessStackToScriptWitness returns the compact size of the number of
\* items followed, for each item in order, by the compact size of its length
\* and its bytes; the empty stack gives the single byte 00.
C8_WitnessSerialization ==
    Called("witnessStackToScriptWitness") =>
        LET stack == call.arg
            out == result[1]
            count == SizePrefix(Len(stack))
            Off(k) == Len(count) + ItemsLen(stack, 1, k - 1)
        IN  /\ Len(out) = Off(Len(stack) + 1)
            /\ SubSeq(out, 1, Len(count)) = count
            /\ \A k \in 1..Len(stack) :
                   SubSeq(out, Off(k) + 1, Off(k + 1)) = WitnessItem(stack, k)
            /\ stack = <<>> => out = <<0>>

C8_Witness ==
    /\ Called("witnessStackToScriptWitness")
    /\ Len(call.arg) = 2
    /\ Len(call.arg[1]) = 253
    /\ Len(call.arg[2]) = 1
    /\ SubSeq(result[1], 1, 4) = <<2, 253, 253, 0>>
    /\ SubSeq(result[1], 258, 259) = <<1, 1>>

(***************************************************************************)
(* Properties of the application, checked under Spec.                      *)
(***************************************************************************)
\* The transaction built by the spend in progress, and the witness script
\* carried by the serialized witness of its input: the bytes after the item
\* count and the compact size of the length.
BuiltTx == spend.rawtx.rawtx
ScriptOfWitness(w) ==
    IF w[2] < 253 THEN SubSeq(w, 3, Len(w)) ELSE SubSeq(w, 5, Len(w))

\* C2: no transaction is built or broadcast whose witness script is empty or
\* longer than 3,500 bytes.
C2_SpendScriptWithinCeiling ==
    spend # Null =>
        LET n == Len(ScriptOfWitness(BuiltTx.ins[1].witness))
        IN  n > 0 /\ n <= MaxScriptLen

\* C3: a spend whose fee f and funding value v do not satisfy 0 < f < v is
\* rejected with an error message, and no transaction is built or handed to
\* a broadcast path.
C3_FeeRejected ==
    [][(SpendClick /\ ~(0 < sendFee /\ sendFee < fundingValue[1]))
          => /\ spend' = Null
             /\ ~building' /\ ~broadcasting'
             /\ spendTxid' = spendTxid
             /\ Len(message') = 2 /\ message'[1] = "Error: "]_vars

C3_Witness ==
    /\ message = <<"Error: ", "Fee must be >0 and < input value">>
    /\ fundingValue # <<>> /\ sendFee = fundingValue[1]
    /\ spend = Null /\ ~building /\ ~broadcasting

\* One of the preconditions of the spend fails: the witness script is
\* missing, a field of the funding outpoint or the recipient is missing, or
\* the fee is out of bounds.
SpendPreconditionFails ==
    \/ wscriptHex = <<>> \/ wscriptLen = 0
    \/ fundingTxid = "" \/ fundingVout = <<>> \/ fundingValue = <<>>
    \/ recipient = ""
    \/ sendFee <= 0 \/ sendFee >= fundingValue[1]

\* C4: a spend attempted while a precondition fails builds no transaction,
\* invokes no broadcast path, leaves spendTxid unchanged and sets an error
\* message.
C4_FailedPrecondition ==
    [][(SpendClick /\ SpendPreconditionFails)
          => /\ spend' = spend /\ spend' = Null
             /\ ~broadcasting'
             /\ spendTxid' = spendTxid
             /\ message' # <<>> /\ message'[1] = "Error: "]_vars

C4_Witness ==
    /\ message = <<"Error: ", "witnessScript missing">>
    /\ wscriptHex = <<>> /\ fundingTxid # "" /\ recipient # ""
    /\ spend = Null /\ spendTxid = <<>>

\* C5: a compiled script of more than 3,500 bytes leaves the address and the
\* scriptPubKey empty while its hex and length are reported; a compiled
\* script of at most 3,500 bytes has both an address and a scriptPubKey.
C5_AddressGatedByCeiling ==
    /\ wscriptLen > MaxScriptLen =>
           p2wshAddress = <<>> /\ p2wshScriptPubKeyHex = <<>> /\ wscriptHex # <<>>
    /\ (wscriptLen > 0 /\ wscriptLen <= MaxScriptLen) =>
           p2wshAddress # <<>> /\ p2wshScriptPubKeyHex # <<>>

\* The conditions of funding: an address, a script of 1 to 3,500 bytes and
\* an amount of at least 400.
FundEligible ==
    /\ p2wshAddress # <<>>
    /\ wscriptLen >= 1 /\ wscriptLen <= MaxScriptLen
    /\ fundAmount >= MinFundAmount

C9_BuiltTransaction ==
    [][(spend = Null /\ spend' # Null) =>
          LET tx == spend'.rawtx.rawtx
              wscript == FromHex(wscriptHex)
          IN  /\ Len(tx.ins) = 1
              /\ tx.ins[1].hash = fundingTxid
              /\ tx.ins[1].index = fundingVout[1]
              /\ tx.ins[1].script = <<>>
              /\ tx.ins[1].witness = <<1>> \o SizePrefix(Len(wscript)) \o wscript
              /\ Len(tx.outs) = 1
              /\ tx.outs[1].address = recipient
              /\ tx.outs[1].value = fundingValue[1] - sendFee
              /\ tx.outs[1].value > 0]_vars

C9_Witness ==
    /\ spend # Null /\ spend.stage = "pushTx"
    /\ BuiltTx.ins[1].witness = <<1, 22, 0, 99, 17>> \o Hello \o <<104, 81>>
    /\ BuiltTx.outs[1].value = InitialFundAmount - InitialSendFee

\* C10: the witness script of a built transaction whose input is a P2WSH
\* output of a funding transaction is the script whose address that output
\* pays.
C10_SpendsFundedScript ==
    spend # Null =>
        LET inp == BuiltTx.ins[1]
        IN  (/\ OnChain(inp.hash)
             /\ inp.index < Len(TxOf(inp.hash))
             /\ TxOf(inp.hash)[inp.index + 1].scriptpubkey_address # ChangeAddress)
            => TxOf(inp.hash)[inp.index + 1].scriptpubkey_address
                   = Bech32Address(Sha256(ScriptOfWitness(inp.witness)))

\* C11: the wallet's pushTx is attempted first; the raw transaction is posted
\* to the explorer only after pushTx has failed, and it is the same raw
\* transaction; once a path has succeeded nothing more is attempted, and
\* spendTxid is the txid returned by the path that succeeded.
C11_BroadcastFallback ==
    [][/\ (spend = Null /\ spend' # Null) => spend'.stage = "pushTx"
       /\ (spend' # Null /\ spend'.stage = "post" /\ spend' # spend) =>
              /\ spend # Null /\ spend.stage = "pushTx"
              /\ spend'.rawtx = spend.rawtx
              /\ spendTxid' = spendTxid
       /\ (spend # Null /\ spend.stage = "pushTx" /\ spend' # spend) =>
              \/ spend' # Null /\ spend'.stage = "post"
              \/ spend' = Null /\ spendTxid' = TxidOf(spend.rawtx)
                               /\ message' = <<"Spend broadcasted via UniSat.">>
       /\ (spend # Null /\ spend.stage = "post" /\ spend' # spend) =>
              /\ spend' = Null
              /\ \/ spendTxid' = TxidOf(spend.rawtx)
                    /\ message' = <<"Spend broadcasted via mempool.space.">>
                 \/ spendTxid' = spendTxid /\ message'[1] = "Error: "
       /\ spendTxid' # spendTxid =>
              spend # Null /\ spend' = Null /\ spendTxid' = TxidOf(spend.rawtx)]_vars

C11_Witness ==
    /\ message = <<"Spend broadcasted via mempool.space.">>
    /\ spendTxid # <<>>
    /\ spend = Null /\ ~broadcasting

\* The text x is part of the message.
InMessage(msg, x) == \E i \in DOMAIN msg : msg[i] = x

\* C12: when pushTx fails with the text X and the POST fails with the text Y,
\* the message is one string that contains X and Y, and spendTxid is not
\* modified.
C12_CombinedError ==
    [][(/\ spend # Null /\ spend.stage = "post"
        /\ spend' = Null
        /\ message' # <<"Spend broadcasted via mempool.space.">>) =>
          /\ InMessage(message', spend.unisatError)
          /\ \/ InMessage(message', "bad-txns-inputs-missingorspent")
             \/ InMessage(message', "Failed to fetch")
          /\ spendTxid' = spendTxid]_vars

C12_Witness ==
    /\ Len(message) = 6 /\ message[1] = "Error: "
    /\ message[3] = "User rejected the request."
    /\ message[6] = "bad-txns-inputs-missingorspent"
    /\ spend = Null /\ spendTxid = <<>> /\ ~broadcasting

(***************************************************************************)
(* Properties of the inscription envelope, checked under SpecCodec.        *)
(***************************************************************************)
\* The bytes an element of a script pushes: those of a data push, or those
\* of OP_0, OP_1NEGATE and OP_1 to OP_16.
Pushed(c) ==
    IF "buf" \in DOMAIN c THEN c.buf
    ELSE IF c.op = 0 THEN <<>>
    ELSE IF c.op = 79 THEN <<129>>
    ELSE <<c.op - 80>>
IsPush(c) == "buf" \in DOMAIN c \/ c.op = 0 \/ (c.op >= 79 /\ c.op <= 96 /\ c.op # 80)

\* The elements of the compiled inscription script, and those between the
\* delimiter and the last element: the payload chunks.
InscriptionElements == Decompile(result[1]).chunks
ChunkElements == SubSeq(InscriptionElements, 7, Len(InscriptionElements) - 1)
RECURSIVE ConcatPushed(_)
ConcatPushed(cs) ==
    IF cs = <<>> THEN <<>> ELSE Pushed(Head(cs)) \o ConcatPushed(Tail(cs))

\* C13: a payload of L bytes is split into ceil(L/520) chunk pushes, each of
\* at most 520 bytes and all but the last of 520 bytes, in the order of the
\* payload, so that their concatenation is the payload; 1040 bytes give two
\* chunks of 520 bytes, and 0 bytes give no chunk and a script all the same.
C13_InscriptionChunks ==
    Called("buildInscriptionScript") =>
        LET P == call.arg.dataBytes
            L == Len(P)
            cs == ChunkElements
        IN  /\ Decompile(result[1]) # Null
            /\ Len(cs) = (L + 519) \div 520
            /\ \A k \in DOMAIN cs : IsPush(cs[k]) /\ Len(Pushed(cs[k])) <= 520
            /\ \A k \in 1..(Len(cs) - 1) : Len(Pushed(cs[k])) = 520
            /\ ConcatPushed(cs) = P
            /\ L = 1040 => Len(cs) = 2 /\ Len(Pushed(cs[1])) = 520
                                       /\ Len(Pushed(cs[2])) = 520
            /\ L = 0 => cs = <<>> /\ Len(InscriptionElements) = 7

C13_Witness ==
    /\ Called("buildInscriptionScript")
    /\ Len(call.arg.dataBytes) = 1040
    /\ call.arg.contentType = TextPlain
    /\ Len(ChunkElements) = 2

MinimalPush(b) ==
    IF b = <<>> THEN [op |-> 0]
    ELSE IF Len(b) = 1 /\ b[1] >= 1 /\ b[1] <= 16 THEN [op |-> 80 + b[1]]
    ELSE IF b = <<129>> THEN [op |-> 79]
    ELSE [buf |-> b]

C15_ParsePattern ==
    (Called("parseEnvelopeScript") /\ "string" \in DOMAIN call.arg) =>
        LET d == Decompile(FromHex(call.arg.string))
            es == d.chunks
            n == Len(es)
            match == /\ d # Null
                     /\ n >= 5
                     /\ es[1] = [op |-> 0]
                     /\ es[2] = [op |-> 99]
                     /\ es[n - 1] = [op |-> 104]
                     /\ es[n] = [op |-> 81]
                     /\ "buf" \in DOMAIN es[3]
        IN  /\ IF match THEN result[1] = [data |-> es[3].buf, isEnvelope |-> TRUE]
                        ELSE result[1] = Null
            /\ call.arg.string = ToHex(<<0, 99, 2, 170, 187, 104, 81>>) =>
                   result[1] = [data |-> <<170, 187>>, isEnvelope |-> TRUE]
            /\ call.arg.string = ToHex(<<0, 99, 1, 170, 117, 104, 81>>) =>
                   result[1] = [data |-> <<170>>, isEnvelope |-> TRUE]
            /\ call.arg.string = ToHex(<<0, 99, 104, 81>>) => result[1] = Null
            /\ call.arg.string = ToHex(<<0, 99, 81, 104, 81>>) => result[1] = Null

C15_Witness ==
    /\ Called("parseEnvelopeScript")
    /\ call.arg = [string |-> ToHex(<<0, 99, 1, 170, 2, 170, 187, 104, 81>>)]
    /\ result[1] = [data |-> <<170>>, isEnvelope |-> TRUE]

\* C16: for every input parseEnvelopeScript returns null or a decoded
\* envelope, and no exception reaches its caller.
C16_ParseTotal ==
    Called("parseEnvelopeScript") =>
        /\ "error" \notin DOMAIN result[1]
        /\ \/ result[1] = Null
           \/ DOMAIN result[1] = {"data", "isEnvelope"} /\ result[1].isEnvelope

C16_Witness ==
    /\ Called("parseEnvelopeScript")
    /\ call.arg = [string |-> ToHex(<<0, 99, 5, 170, 187, 104, 81>>)]
    /\ result[1] = Null

\* C17: parseEnvelopeScript returns null for the script buildInscriptionScript
\* builds, for every payload and content type.
C17_InscriptionNotParsed ==
    Called("parseInscription") => result[1] = Null

C17_Witness ==
    /\ Called("parseInscription")
    /\ Len(call.arg.dataBytes) = 1040
    /\ call.arg.contentType = DefaultContentType
    /\ result[1] = Null

\* C18: hexToBytes fails whenever the string it decodes (the text trimmed and
\* without a leading "0x") has an odd length or holds a character that is no
\* hexadecimal digit; it never returns bytes for such a string.
C18_HexRejected ==
    Called("hexToBytes") =>
        LET clean == Strip0x(Trim(call.arg))
        IN  (Len(clean) % 2 = 1 \/ \E i \in 1..Len(clean) : ~IsHexDigit(clean[i]))
                => IsThrow(result[1])

\* The part of C18 the code keeps: an odd length is always rejected.
C18_OddLengthRejected ==
    Called("hexToBytes") =>
        (Len(Strip0x(Trim(call.arg))) % 2 = 1 => IsThrow(result[1]))

\* "zz" has an even length and no hex digit; hexToBytes returns the byte 0.
C18_BadDigitAccepted ==
    /\ Called("hexToBytes")
    /\ call.arg = <<122, 122>>
    /\ result[1] = Return(<<0>>)

\* The error texts autodetectVout can set.
DetectErrors ==
    {"Need funding txid and P2WSH address", "Failed to fetch tx from mempool.space",
     "Failed to fetch", "Could not find P2WSH output in that tx"}
IsDetectError(msg) == Len(msg) = 1 /\ msg[1] \in DetectErrors

\* The 1-based places of the outputs of the transaction t that pay address a.
MatchingOutputs(t, a) ==
    IF OnChain(t)
    THEN {i \in DOMAIN TxOf(t) : TxOf(t)[i].scriptpubkey_address = a}
    ELSE {}

\* C19: when a fetch made by autodetectVout is answered, either fundingVout
\* and fundingValue are set together from the lowest-index output that pays
\* the address captured at the click, or both are left unchanged and an error
\* message is set; the latter always when no output matches or the explorer
\* does not know the txid.  A click with no txid or no address starts no
\* fetch, leaves both unchanged and sets an error message.  Nothing else of
\* the detection changes fundingVout or fundingValue.
C19_AutodetectVout ==
    [][ /\ (fetches' # fetches /\ fetches' \subseteq fetches) =>
              LET f == CHOOSE x \in fetches \ fetches' : TRUE
                  matches == MatchingOutputs(f.txid, f.address)
              IN  \/ /\ matches # {}
                     /\ LET first == CHOOSE i \in matches : \A j \in matches : i <= j
                        IN  /\ fundingVout' = <<first - 1>>
                            /\ fundingValue' = <<TxOf(f.txid)[first].value>>
                            /\ ~IsDetectError(message')
                  \/ /\ UNCHANGED <<fundingVout, fundingValue>>
                     /\ IsDetectError(message')
        /\ ((fundingTxid = "" \/ p2wshAddress = <<>>) /\ steps' # steps
                /\ UNCHANGED <<fundingTxid, dataInput, fetches>>) =>
              /\ UNCHANGED <<fundingVout, fundingValue>>
              /\ message' = <<"Need funding txid and P2WSH address">>
        /\ (fundingTxid = "" \/ p2wshAddress = <<>>) => fetches' \subseteq fetches
        /\ (fundingVout' # fundingVout \/ fundingValue' # fundingValue) =>
              fetches' # fetches
      ]_vars

\* tx1 pays the address at the places 1 and 2 (0-based): the first is taken,
\* with its own value.
C19_Witness ==
    /\ fundingTxid = "tx1"
    /\ fetches = {}
    /\ fundingVout = <<1>>
    /\ fundingValue = <<InitialFundAmount>>
    /\ message = <<"Detected vout=", 1, ", value=", InitialFundAmount, " sats">>

\* The text was changed between the click and the answer: the output found is
\* the one of the address at the click, not of the address shown now.
C19_CapturedAddress ==
    /\ fundingTxid = "tx2"
    /\ p2wshAddress = PointTextAddress
    /\ fundingVout = <<1>>
    /\ fundingValue = <<800>>

\* No output of tx3 pays the address: the values found before are kept.
C19_NoMatchKeepsValues ==
    /\ fundingTxid = "tx3"
    /\ fundingVout = <<1>>
    /\ fundingValue = <<InitialFundAmount>>
    /\ message = <<"Could not find P2WSH output in that tx">>

\* The number of payload bytes of the call of the effect, and whether the
\* effect produced an address for them.
PayloadLen == Len(InputBytes(call.arg.mode, call.arg.text).ok)
AddressGenerated == result[1].p2wsh # Null /\ ~IsThrow(result[1].p2wsh)
EnvelopeLengthRule ==
    LET L == PayloadLen
    IN  /\ (2 <= L /\ L <= 75) => result[1].wscriptLen = L + 5
        /\ (76 <= L /\ L <= 255) => result[1].wscriptLen = L + 6
        /\ (256 <= L /\ L <= 65535) => result[1].wscriptLen = L + 7

\* C20: the envelope script of a payload of L bytes has L + 5 bytes for
\* 2 <= L <= 75, L + 6 for 76 <= L <= 255 and L + 7 for 256 <= L <= 65535, and
\* an address is generated exactly for the payloads of at most 3,493 bytes.
C20_LengthAndAddressGate ==
    (Called("effect") /\ ~IsThrow(result[1])) =>
        /\ EnvelopeLengthRule
        /\ AddressGenerated <=> PayloadLen <= MaxScriptLen - 7

\* The parts of C20 the code keeps: the three lengths, no address above 3,493
\* bytes, and an address at or below unless payments.p2wsh rejects the script.
C20_LengthsAndCeiling ==
    (Called("effect") /\ ~IsThrow(result[1])) =>
        /\ EnvelopeLengthRule
        /\ PayloadLen > MaxScriptLen - 7 => ~AddressGenerated
        /\ PayloadLen <= MaxScriptLen - 7 =>
              (AddressGenerated \/ IsThrow(result[1].p2wsh))

\* A payload of 3,493 bytes gets an address for its script of 3,500 bytes.
C20_AtCeiling ==
    /\ Called("effect") /\ ~IsThrow(result[1])
    /\ PayloadLen = MaxScriptLen - 7
    /\ result[1].wscriptLen = MaxScriptLen
    /\ AddressGenerated

\* The 65 bytes of an uncompressed public key get a script of 70 bytes and no
\* address.
C20_PointPayloadNoAddress ==
    /\ Called("effect") /\ ~IsThrow(result[1])
    /\ PayloadLen = 65
    /\ result[1].wscriptLen = 70
    /\ ~AddressGenerated

\* The P2WSH derivation of the script whose hex is stored: the address and
\* the hex of the output script of its SHA-256.
StoredScript == FromHex(wscriptHex)
DerivedFromStored ==
    /\ p2wshAddress = Bech32Address(Sha256(StoredScript))
    /\ p2wshScriptPubKeyHex = OutputHex(<<OP_FALSE, 32, Sha256(StoredScript)>>)

\* C21: after every edit of the mode or the text, the address is empty exactly
\* when the scriptPubKey hex is empty, and a non-empty address comes with a
\* script length in 1..3500 that is the byte length of the stored script hex,
\* the address and the scriptPubKey being the derivation of that script.
C21_DerivedState ==
    /\ p2wshAddress = <<>> <=> p2wshScriptPubKeyHex = <<>>
    /\ p2wshAddress # <<>> =>
          /\ wscriptLen >= 1 /\ wscriptLen <= MaxScriptLen
          /\ Len(wscriptHex) = 2 * wscriptLen
          /\ DerivedFromStored

\* The parts of C21 the code keeps: everything but the derivation.
C21_EmptyTogetherAndLength ==
    /\ p2wshAddress = <<>> <=> p2wshScriptPubKeyHex = <<>>
    /\ p2wshAddress # <<>> =>
          /\ wscriptLen >= 1 /\ wscriptLen <= MaxScriptLen
          /\ Len(wscriptHex) = 2 * wscriptLen

\* The text is the hex of the curve point and the mode was switched from utf8
\* to hex: the script stored is the 70-byte envelope of the point, the address
\* is still the one of the envelope of the 130 characters.
C21_StaleAddress ==
    /\ mode = "hex" /\ dataInput = ToHex(PointBytes)
    /\ wscriptLen = 70
    /\ p2wshAddress = PointTextAddress
    /\ ~DerivedFromStored

\* C22: building and broadcasting are never both true, neither in a state
\* of the component nor between two setter calls of the handler; broadcasting
\* becomes true only in the step that built the transaction it then pushes;
\* and when no call of buildAndBroadcastSpend is in flight both flags are
\* false, whichever way the call ended.
C22_SpendFlags ==
    /\ [](/\ ~(building /\ broadcasting)
          /\ \A built \in BOOLEAN : \A i \in 1..4 :
                ~(SpendFlagWrites(built)[i].building
                    /\ SpendFlagWrites(built)[i].broadcasting)
          /\ spend = Null => (~building /\ ~broadcasting))
    /\ [][/\ (broadcasting' /\ ~broadcasting) =>
                /\ spend = Null
                /\ SpendCheck = <<>>
                /\ ~IsThrow(BuildSpend)
                /\ spend' = [stage |-> "pushTx", rawtx |-> RawTx(BuildSpend.ok)]
          /\ (spend' = Null /\ steps' # steps /\ message' # message
                /\ message' # <<>> /\ message'[1] = "Error: ") =>
                (~building' /\ ~broadcasting')
          /\ (spend # Null /\ spend' = Null) => (~building' /\ ~broadcasting')
         ]_vars

\* The call ended with a failure of the build (payments.p2wsh threw for the
\* stored script): both flags are false and the button can be used again.
C22_Witness ==
    /\ message = <<"Error: ", "redeem.input or redeem.output contains uncompressed pubkey">>
    /\ spend = Null
    /\ ~building /\ ~broadcasting
    /\ canSpend

\* The call ended with a success through the explorer.
C22_AfterExplorerSuccess ==
    /\ message = <<"Spend broadcasted via mempool.space.">>
    /\ spend = Null /\ ~building /\ ~broadcasting /\ canSpend

\* A call is in flight: broadcasting is shown and building is not.
C22_InFlight == spend # Null /\ broadcasting /\ ~building

\* The last witness item of an input parses as a bare envelope.
LastItemIsEnvelope(input) ==
    /\ "witness" \in DOMAIN input
    /\ Len(input.witness) > 0
    /\ parseEnvelopeScript(input.witness[Len(input.witness)]) # Null

\* C23: in the decoded transaction every input is reported at its index with
\* its witness; it is flagged as carrying data exactly when its witness is
\* not empty and the last item of the witness parses as a bare envelope, the
\* data reported being the payload of that item; an envelope at another place
\* of the witness does not flag it, and an input with no witness has
\* hasData = false.
C23_LastWitnessItemOnly ==
    Called("decodeTransaction") =>
        /\ Len(result[1].inputs) = Len(call.arg.vin)
        /\ \A i \in DOMAIN call.arg.vin :
             LET input == call.arg.vin[i]
                 out == result[1].inputs[i]
             IN  /\ out.index = i - 1
                 /\ out.witness = WitnessOf(input)
                 /\ out.hasData <=> LastItemIsEnvelope(input)
                 /\ out.hasData =>
                       out.dataHex = ToHex(parseEnvelopeScript(
                           input.witness[Len(input.witness)]).data)
                 /\ WitnessOf(input) = <<>> => ~out.hasData

\* The first input has an envelope below a signature and is not flagged; the
\* second has the same envelope as its last item and is flagged with the
\* payload aa bb.
C23_Witness ==
    /\ Called("decodeTransaction")
    /\ Len(call.arg.vin) = 2
    /\ \A i \in 1..2 : "witness" \in DOMAIN call.arg.vin[i]
    /\ call.arg.vin[1].witness =
          <<JsonString(ToHex(buildEnvelopeScript(<<170, 187>>))),
            JsonString(ToHex(<<48, 68, 2, 32>>))>>
    /\ call.arg.vin[2].witness =
          <<JsonString(ToHex(<<48, 68, 2, 32>>)),
            JsonString(ToHex(buildEnvelopeScript(<<170, 187>>)))>>
    /\ ~result[1].inputs[1].hasData
    /\ result[1].inputs[2].hasData
    /\ result[1].inputs[2].dataHex = <<97, 97, 98, 98>>

\* An input with no witness is reported with an empty witness and no data.
C23_NoWitness ==
    /\ Called("decodeTransaction")
    /\ "witness" \notin DOMAIN call.arg.vin[1]
    /\ result[1].inputs[1] = [index |-> 0, witness |-> <<>>, hasData |-> FALSE]

====
